---- MODULE Spec2Model ----
(***************************************************************************)
(* Model of the detector package of go-csv (src/detector/detect.go):       *)
(* DetectRowTerminator and DetectDelimiter with its two stages, sample and *)
(* analyze.  Bytes are integers (their ASCII codes), Go strings and byte   *)
(* slices are sequences of bytes.                                          *)
(***************************************************************************)
EXTENDS Integers, Sequences, FiniteSets, TLC

(* ------------------------------------------------------------------ *)
(* Bytes that occur in the code or in the inputs                       *)
(* ------------------------------------------------------------------ *)
LF == 10
CR == 13
TAB == 9
QUOTE == 34
COMMA == 44
SEMICOLON == 59
PIPE == 124
LetterA == 97
NUL == 0

(* ------------------------------------------------------------------ *)
(* Program constants                                                   *)
(* ------------------------------------------------------------------ *)
sampleLines == 15
KB == 1024
bufSize == 1024

(* ------------------------------------------------------------------ *)
(* Bounds of the model                                                 *)
(* ------------------------------------------------------------------ *)
\* longest stream of the exhaustive family
MaxLen == 3
\* longest tail that follows the sampleLines-1 leading line breaks
MaxTail == 5
\* largest short read a reader delivers (besides a reader that fills the buffer)
MaxBlock == 3

Alphabet == {LF, CR, QUOTE, COMMA, SEMICOLON, LetterA}
TailAlphabet == {LF, QUOTE, COMMA}
\* the usual quote, and a byte that is a delimiter character elsewhere
Enclosures == {QUOTE, SEMICOLON}
BlockSizes == (1..MaxBlock) \cup {bufSize}

Min(a, b) == IF a <= b THEN a ELSE b
SetMin(S) == CHOOSE x \in S : \A y \in S : x <= y
Abs(x) == IF x < 0 THEN -x ELSE x
SeqsUpTo(S, k) == UNION {[1..m -> S] : m \in 0..k}
Range(s) == {s[j] : j \in DOMAIN s}

\* sampleLines-1 empty lines: the sampler's line counter reaches the target at their end
LinePrefix == [k \in 1..(sampleLines - 1) |-> LF]
ShortStreams == SeqsUpTo(Alphabet, MaxLen)
LongStreams == {LinePrefix \o t : t \in SeqsUpTo(TailAlphabet, MaxTail)}

VARIABLES
  data,              \* the byte content of the stream handed to the detector
  enclosure,         \* the enclosure byte handed to DetectDelimiter
  blockSize,         \* the most bytes the stream's Read delivers in one call
  off,               \* bytes the stream has delivered so far
  reads,             \* Read calls issued on the stream during the current call
  bbuf,              \* bufio.Reader: bytes buffered and not yet handed out
  berr,              \* bufio.Reader: error kept for the next Read
  op,                \* the operation in progress or just returned
  pc,                \* position inside the operation
  buf,               \* the bytes of buf the loops may look at
  n,                 \* n of the last Read
  err,               \* err of the last Read
  i,                 \* index of the inner loop of sample
  base,              \* stream offset of buf[0]
  enclosed,          \* sample: enclosed
  actualSampleLines, \* sample: actualSampleLines
  frequencies,       \* sample: frequencies
  touched,           \* stream offsets (1-based) recorded in the table or counted as line breaks
  analyzed,          \* the slice analyze returned
  candidates,        \* the slice DetectDelimiter returned
  terminator,        \* the string DetectRowTerminator returned
  previous           \* the result of the last DetectDelimiter call made before on this
                     \* content, as a set: empty when there was none

detectorVars ==
  <<data, enclosure, blockSize, off, reads, bbuf, berr, op, pc, buf, n, err, i, base,
    enclosed, actualSampleLines, frequencies, touched, analyzed, candidates,
    terminator, previous>>

\* The dialect package: a DialectBuilder, the flag sets and the last Dialect() call
VARIABLES
  builder,             \* "none", or how p was made: "commandLine" (p.flagSet = nil) or "flagSet"
  quoteCharString,     \* *p.quoteCharString, a sequence of runes
  escapeCharString,    \* *p.escapeCharString
  delimiterCharString, \* *p.delimiterCharString
  commandLineParsed,   \* flag.Parsed(): the process-wide flag set
  flagSetParsed,       \* f.Parsed(): the FlagSet handed to FromFlagSet
  dialectReturn        \* what the Dialect() call just made returned, as a set: empty
                       \* when the last step was no Dialect() call

dialectVars ==
  <<builder, quoteCharString, escapeCharString, delimiterCharString, commandLineParsed,
    flagSetParsed, dialectReturn>>

vars == <<detectorVars, dialectVars>>

(* ------------------------------------------------------------------ *)
(* The stream: an io.Reader over data                                  *)
(* ------------------------------------------------------------------ *)
\* The outcomes of one Read into a buffer of capacity cap.  A reader delivers
\* at most blockSize bytes; at the end of the data it reports io.EOF or another
\* error, either with the last bytes or on the call after them.
ReaderRead(cap) ==
  LET remaining == Len(data) - off
      k == Min(Min(blockSize, cap), remaining)
  IN  IF remaining = 0
      THEN {[n |-> 0, err |-> e] : e \in {"EOF", "ERR"}}
      ELSE {[n |-> k, err |-> "nil"]}
           \cup (IF k = remaining
                 THEN {[n |-> k, err |-> e] : e \in {"EOF", "ERR"}}
                 ELSE {})

\* string(b) for a byte b: the UTF-8 encoding of the code point b
ByteToString(b) == IF b < 128 THEN <<b>> ELSE <<192 + (b \div 64), 128 + (b % 64)>>

(* ------------------------------------------------------------------ *)
(* DetectRowTerminator                                                 *)
(* ------------------------------------------------------------------ *)
\* bytes.Index: the first 0-based index of sep in s, or -1
Index(s, sep) ==
  LET hits == {j \in 0..(Len(s) - Len(sep)) : SubSeq(s, j + 1, j + Len(sep)) = sep}
  IN  IF hits = {} THEN -1 ELSE SetMin(hits)

\* the decision of DetectRowTerminator with the carriage return looked for first
rowTerminator_CRFirst(b, e) ==
  IF e # "nil" THEN <<>>
  ELSE IF Index(b, <<CR>>) # -1 THEN <<CR>>
  ELSE IF Index(b, <<CR, LF>>) # -1 THEN <<CR, LF>>
  ELSE <<LF>>

\* the decision of DetectRowTerminator from the buffer and the error of its one Read
rowTerminator(b, e) ==
  IF e # "nil"
  THEN (IF e = "EOF" THEN <<>> ELSE <<>>)
  ELSE IF Index(b, <<CR, LF>>) # -1 THEN <<CR, LF>>
  ELSE IF Index(b, <<CR>>) # -1 THEN <<CR>>
  ELSE <<LF>>

\* the part of the zero-filled 128 KiB buffer behind the bytes read
ZeroTail == <<NUL>>

\* a DetectRowTerminator that goes on reading until the stream is at its end
DetectRowTerminator_ReadsToEnd ==
  /\ pc = "idle"
  /\ n' = Len(data) - off
  /\ err' = IF Len(data) - off > 0 THEN "nil" ELSE "EOF"
  /\ buf' = SubSeq(data, off + 1, Len(data)) \o ZeroTail
  /\ off' = Len(data)
  /\ terminator' = rowTerminator(buf', err')
  /\ reads' = reads + ((Len(data) - off + blockSize - 1) \div blockSize) + 1
  /\ op' = "term"
  /\ pc' = "done"
  /\ UNCHANGED <<data, enclosure, blockSize, bbuf, berr, i, base, enclosed,
                 actualSampleLines, frequencies, touched, analyzed, candidates, previous, dialectVars>>

DetectRowTerminator ==
  /\ pc = "idle"
  /\ \E res \in ReaderRead(128 * KB) :
       /\ n' = res.n
       /\ err' = res.err
       /\ buf' = SubSeq(data, off + 1, off + res.n) \o ZeroTail
       /\ off' = off + res.n
       /\ terminator' = rowTerminator(buf', res.err)
  /\ reads' = reads + 1
  /\ op' = "term"
  /\ pc' = "done"
  /\ UNCHANGED <<data, enclosure, blockSize, bbuf, berr, i, base, enclosed,
                 actualSampleLines, frequencies, touched, analyzed, candidates, previous, dialectVars>>

(* ------------------------------------------------------------------ *)
(* frequencyTable                                                      *)
(* ------------------------------------------------------------------ *)
\* a table with no character in it
createFrequencyTable == [c \in {} |-> [l \in {} |-> 0]]

\* f[char][line]++, creating the two map entries that are missing
increment(f, char, line) ==
  LET f1 == IF char \in DOMAIN f
            THEN f
            ELSE [c \in (DOMAIN f) \cup {char} |->
                    IF c = char THEN [l \in {} |-> 0] ELSE f[c]]
      m  == f1[char]
      m1 == IF line \in DOMAIN m
            THEN m
            ELSE [l \in (DOMAIN m) \cup {line} |-> IF l = line THEN 0 ELSE m[l]]
  IN  [f1 EXCEPT ![char] = [m1 EXCEPT ![line] = @ + 1]]

(* ------------------------------------------------------------------ *)
(* sample                                                              *)
(* ------------------------------------------------------------------ *)
\* size of the buffer bufio.NewReader allocates
defaultBufSize == 4096

\* the classification with the letters left out: [[:digit:]\n\r]
nonDelimiterMatch_NoLetters(char) ==
  \/ char \in 48..57
  \/ char = LF
  \/ char = CR

\* nonDelimiterRegex.MatchString(string(char)): [[:alnum:]\n\r]
nonDelimiterMatch(char) ==
  \/ char \in 48..57
  \/ char \in 65..90
  \/ char \in 97..122
  \/ char = LF
  \/ char = CR

\* bufferedReader.Read(buf): the outcomes, each with the reader state it leaves.
\* With nothing buffered it hands out the kept error, or issues one Read on the
\* stream; it then copies what fits into buf.
BufferedRead ==
  IF bbuf = <<>> /\ berr # "nil"
  THEN {[n |-> 0, err |-> berr, chunk |-> <<>>, bbuf |-> <<>>, berr |-> "nil",
         off |-> off, reads |-> reads]}
  ELSE IF bbuf = <<>>
  THEN {IF res.n = 0
        THEN [n |-> 0, err |-> res.err, chunk |-> <<>>, bbuf |-> <<>>, berr |-> "nil",
              off |-> off, reads |-> reads + 1]
        ELSE LET got == SubSeq(data, off + 1, off + res.n)
                 m == Min(bufSize, Len(got))
             IN  [n |-> m, err |-> "nil", chunk |-> SubSeq(got, 1, m),
                  bbuf |-> SubSeq(got, m + 1, Len(got)), berr |-> res.err,
                  off |-> off + res.n, reads |-> reads + 1]
        : res \in ReaderRead(defaultBufSize)}
  ELSE LET m == Min(bufSize, Len(bbuf))
       IN  {[n |-> m, err |-> "nil", chunk |-> SubSeq(bbuf, 1, m),
             bbuf |-> SubSeq(bbuf, m + 1, Len(bbuf)), berr |-> berr,
             off |-> off, reads |-> reads]}

\* DetectDelimiter is called: sample sets up its reader and its locals
DetectDelimiter ==
  /\ pc = "idle"
  /\ op' = "delim"
  /\ pc' = "read"
  /\ bbuf' = <<>>
  /\ berr' = "nil"
  /\ frequencies' = createFrequencyTable
  /\ enclosed' = FALSE
  /\ actualSampleLines' = 1
  /\ UNCHANGED <<data, enclosure, blockSize, off, reads, buf, n, err, i, base, touched,
                 analyzed, candidates, terminator, previous, dialectVars>>

\* n, err = bufferedReader.Read(buf), then the test of the outer loop
SampleRead ==
  /\ pc = "read"
  /\ \E r \in BufferedRead :
       /\ n' = r.n
       /\ err' = r.err
       /\ buf' = r.chunk
       /\ bbuf' = r.bbuf
       /\ berr' = r.berr
       /\ off' = r.off
       /\ reads' = r.reads
       /\ pc' = IF r.err # "nil" THEN "analyze" ELSE IF r.n > 0 THEN "scan" ELSE "read"
  /\ i' = 0
  /\ base' = base + n
  /\ UNCHANGED <<data, enclosure, blockSize, op, enclosed, actualSampleLines, frequencies,
                 touched, analyzed, candidates, terminator, previous, dialectVars>>

\* what one pass of the inner loop's body does at index i: the new enclosed,
\* actualSampleLines and frequencies, the index the loop goes on with, whether
\* it left the loop by break, and whether it took the byte as unenclosed
scanStep ==
  LET current == buf[i + 1]
      prev == IF i > 0 THEN buf[i] ELSE NUL
      next == IF i < n - 1 THEN buf[i + 2] ELSE NUL
      same == [enclosed |-> enclosed, lines |-> actualSampleLines, freq |-> frequencies,
               i |-> i + 1, break |-> FALSE, took |-> FALSE]
  IN  IF current = enclosure
      THEN IF ~enclosed \/ next # enclosure
           THEN [same EXCEPT !.enclosed = ~enclosed]
           ELSE [same EXCEPT !.i = i + 2]
      ELSE IF ((current = LF /\ prev # CR) \/ current = CR) /\ ~enclosed
      THEN [same EXCEPT !.lines = actualSampleLines + 1,
                        !.break = (actualSampleLines + 1 >= sampleLines),
                        !.took = TRUE]
      ELSE IF ~enclosed
      THEN IF ~nonDelimiterMatch(current)
           THEN [same EXCEPT !.freq = increment(frequencies, current, actualSampleLines),
                             !.took = TRUE]
           ELSE same
      ELSE same

\* one pass of the inner loop; when the loop ends (by its test or by break)
\* the next Read follows
SampleScan ==
  /\ pc = "scan"
  /\ i < n
  /\ LET s == scanStep
     IN  /\ enclosed' = s.enclosed
         /\ actualSampleLines' = s.lines
         /\ frequencies' = s.freq
         /\ i' = s.i
         /\ touched' = IF s.took THEN touched \cup {base + i + 1} ELSE touched
         /\ pc' = IF s.break \/ s.i >= n THEN "read" ELSE "scan"
  /\ UNCHANGED <<data, enclosure, blockSize, off, reads, bbuf, berr, op, buf, n, err, base,
                 analyzed, candidates, terminator, previous, dialectVars>>

(* ------------------------------------------------------------------ *)
(* analyze                                                             *)
(* ------------------------------------------------------------------ *)
\* frequencyOfLine[l] when the key is present, the zero value otherwise
lookup(frequencyOfLine, l) == IF l \in DOMAIN frequencyOfLine THEN frequencyOfLine[l] ELSE 0

\* the loop of mean: the sum of the frequencies of the lines 1..size
RECURSIVE meanTotal(_, _)
meanTotal(frequencyOfLine, size) ==
  IF size <= 0 THEN 0
  ELSE lookup(frequencyOfLine, size) + meanTotal(frequencyOfLine, size - 1)

\* mean: float32(total) / float32(size), kept as the fraction num/den; 0/0 is NaN
mean(frequencyOfLine, size) == [num |-> meanTotal(frequencyOfLine, size), den |-> size]

\* the loop of deviation with the terms added up signed, without square and root
RECURSIVE signedTotal(_, _, _)
signedTotal(frequencyOfLine, average, size) ==
  IF size <= 0 THEN 0
  ELSE (average.num - lookup(frequencyOfLine, size) * average.den)
       + signedTotal(frequencyOfLine, average, size - 1)

\* the loop of deviation: the sum over the lines 1..size of
\* sqrt((average - frequency)^2), in units of 1/average.den
RECURSIVE deviationTotal(_, _, _)
deviationTotal(frequencyOfLine, average, size) ==
  IF size <= 0 THEN 0
  ELSE Abs(average.num - lookup(frequencyOfLine, size) * average.den)
       + deviationTotal(frequencyOfLine, average, size - 1)

\* the deviation with the terms added up signed, without the square and the root
deviation_Signed(frequencyOfLine, size) ==
  LET average == mean(frequencyOfLine, size)
  IN  [nan |-> (size = 0), num |-> signedTotal(frequencyOfLine, average, size),
       den |-> size * size]

\* deviation: total / float64(size), kept as the fraction num/den.  With
\* size = 0 the loop adds nothing and the quotient 0/0 is NaN.  The floating
\* point result is zero exactly when the fraction is: a term is zero only when
\* the rounded average equals the integer frequency, and for fewer than 2^24
\* lines rounding cannot move a non-integer average onto an integer.
deviation(frequencyOfLine, size) ==
  LET average == mean(frequencyOfLine, size)
  IN  [nan |-> (size = 0), num |-> deviationTotal(frequencyOfLine, average, size),
       den |-> size * size]

\* float64(0.0) == d: false for NaN
isZero(d) == ~d.nan /\ d.num = 0

\* analyze keeping one qualifying character only, the smallest
qualifying_OnlyOne(ft, sampleLine) ==
  LET all == {c \in DOMAIN ft : isZero(deviation(ft[c], sampleLine))}
  IN  {c \in all : \A d \in all : c <= d}

\* the characters analyze appends to candidates
qualifying(ft, sampleLine) == {c \in DOMAIN ft : isZero(deviation(ft[c], sampleLine))}

\* the orders in which a range over a map can visit the keys S
Orderings(S) ==
  {s \in [1..Cardinality(S) -> S] : \A a, b \in 1..Cardinality(S) : a # b => s[a] # s[b]}

\* analyze: the slices it can return; the range over the map ft visits the
\* characters in an order the runtime chooses
analyze(ft, sampleLine) == Orderings(qualifying(ft, sampleLine))

\* sample has returned: d.analyze(statistics, totalLines-1)
Analyze ==
  /\ pc = "analyze"
  /\ analyzed' \in analyze(frequencies, actualSampleLines - 1)
  /\ pc' = "filter"
  /\ UNCHANGED <<data, enclosure, blockSize, off, reads, bbuf, berr, op, buf, n, err, i,
                 base, enclosed, actualSampleLines, frequencies, touched, candidates,
                 terminator, previous, dialectVars>>

(* ------------------------------------------------------------------ *)
(* DetectDelimiter: the filter and the return                          *)
(* ------------------------------------------------------------------ *)
\* a validDelimiter that lets every character through
validDelimiter_Any(char) == char = char

validDelimiter(char) == char \in {COMMA, PIPE, TAB, SEMICOLON}

\* the loop of DetectDelimiter falling back to the comma when nothing is kept
filterCandidates_DefaultComma(delims) ==
  LET kept == SelectSeq(delims, validDelimiter)
  IN  IF kept = <<>> THEN <<ByteToString(COMMA)>>
      ELSE [k \in 1..Len(kept) |-> ByteToString(kept[k])]

\* the loop of DetectDelimiter over the analyzed characters
filterCandidates(delims) ==
  LET kept == SelectSeq(delims, validDelimiter)
  IN  [k \in 1..Len(kept) |-> ByteToString(kept[k])]

DetectDelimiterReturn ==
  /\ pc = "filter"
  /\ candidates' = filterCandidates(analyzed)
  /\ pc' = "done"
  /\ UNCHANGED <<data, enclosure, blockSize, off, reads, bbuf, berr, op, buf, n, err, i,
                 base, enclosed, actualSampleLines, frequencies, touched, analyzed,
                 terminator, previous, dialectVars>>

(* ------------------------------------------------------------------ *)
(* The caller                                                          *)
(* ------------------------------------------------------------------ *)
\* the caller opens another, independent stream over the same content
Reopen ==
  /\ pc = "done"
  /\ pc' = "idle"
  /\ op' = "none"
  /\ off' = 0
  /\ reads' = 0
  /\ bbuf' = <<>>
  /\ berr' = "nil"
  /\ buf' = <<>>
  /\ n' = 0
  /\ err' = "nil"
  /\ i' = 0
  /\ base' = 0
  /\ enclosed' = FALSE
  /\ actualSampleLines' = 1
  /\ frequencies' = createFrequencyTable
  /\ touched' = {}
  /\ analyzed' = <<>>
  /\ candidates' = <<>>
  /\ terminator' = <<>>
  /\ previous' = IF op = "delim" THEN {candidates} ELSE previous
  /\ UNCHANGED <<data, enclosure, blockSize, dialectVars>>

(* ------------------------------------------------------------------ *)
(* The dialect package: DialectBuilder                                 *)
(* ------------------------------------------------------------------ *)
BACKSLASH == 92

\* longest value given to a flag
MaxFlagLen == 2

FlagRunes == {COMMA, QUOTE}
FlagValues == SeqsUpTo(FlagRunes, MaxFlagLen)

\* no builder has been made and no flag set parsed
NoBuilder ==
  /\ builder = "none"
  /\ quoteCharString = <<>>
  /\ escapeCharString = <<>>
  /\ delimiterCharString = <<>>
  /\ commandLineParsed = FALSE
  /\ flagSetParsed = FALSE
  /\ dialectReturn = {}

\* FromCommandLine: the three flags are defined on the process-wide flag set
FromCommandLine ==
  /\ builder = "none"
  /\ builder' = "commandLine"
  /\ delimiterCharString' = <<TAB>>
  /\ quoteCharString' = <<QUOTE>>
  /\ escapeCharString' = <<BACKSLASH>>
  /\ dialectReturn' = {}
  /\ UNCHANGED <<commandLineParsed, flagSetParsed, detectorVars>>

\* FromFlagSet(f): the three flags are defined on f
FromFlagSet ==
  /\ builder = "none"
  /\ builder' = "flagSet"
  /\ delimiterCharString' = <<TAB>>
  /\ quoteCharString' = <<QUOTE>>
  /\ escapeCharString' = <<BACKSLASH>>
  /\ dialectReturn' = {}
  /\ UNCHANGED <<commandLineParsed, flagSetParsed, detectorVars>>

\* what parsing arguments can leave in the three flags of a flag set on which
\* they are defined: each keeps its value or takes the value of an argument
parseValues(defined) ==
  IF defined
  THEN /\ quoteCharString' \in FlagValues \cup {quoteCharString}
       /\ escapeCharString' \in FlagValues \cup {escapeCharString}
       /\ delimiterCharString' \in FlagValues \cup {delimiterCharString}
  ELSE UNCHANGED <<quoteCharString, escapeCharString, delimiterCharString>>

\* flag.Parse(): the process-wide flag set is parsed
ParseCommandLine ==
  /\ commandLineParsed' = TRUE
  /\ parseValues(builder = "commandLine")
  /\ dialectReturn' = {}
  /\ UNCHANGED <<builder, flagSetParsed, detectorVars>>

\* f.Parse(arguments): the FlagSet handed to FromFlagSet is parsed
ParseFlagSet ==
  /\ flagSetParsed' = TRUE
  /\ parseValues(builder = "flagSet")
  /\ dialectReturn' = {}
  /\ UNCHANGED <<builder, commandLineParsed, detectorVars>>

\* flag.Set / f.Set: one flag of the builder is given a value without parsing
SetFlag ==
  /\ builder # "none"
  /\ \E v \in FlagValues :
       \/ quoteCharString' = v /\ UNCHANGED <<escapeCharString, delimiterCharString>>
       \/ escapeCharString' = v /\ UNCHANGED <<quoteCharString, delimiterCharString>>
       \/ delimiterCharString' = v /\ UNCHANGED <<quoteCharString, escapeCharString>>
  /\ dialectReturn' = {}
  /\ UNCHANGED <<builder, commandLineParsed, flagSetParsed, detectorVars>>

\* utf8.RuneCountInString
RuneCountInString(str) == Len(str)

\* the rune of strings.NewReader(str).ReadRune(): 0 at the end of input
ReadRune(str) == IF Len(str) = 0 THEN 0 ELSE str[1]

\* an error of Dialect(): the option its message names and the constraint
\* ("FlagSet has not been parsed before calling this function." names no option)
DialectError(option, constraint) == [option |-> option, constraint |-> constraint]

NotParsedError == DialectError("", "FlagSet has not been parsed")

\* the test of Dialect() made on the process-wide flag set whatever the builder
notParsed_ProcessWide == ~commandLineParsed

\* the test of Dialect() that the flag set of the builder has not been parsed
notParsed ==
  IF builder = "flagSet" THEN ~flagSetParsed ELSE ~commandLineParsed

\* the pair Dialect() returns: the dialect (empty set: nil) and the error
\* (empty set: nil)
dialectOf ==
  IF notParsed
  THEN [dialect |-> {}, err |-> {NotParsedError}]
  ELSE IF RuneCountInString(quoteCharString) > 1
  THEN [dialect |-> {},
        err |-> {DialectError("-fields-optionally-enclosed-by", "can't be more than one character")}]
  ELSE IF RuneCountInString(escapeCharString) > 1
  THEN [dialect |-> {},
        err |-> {DialectError("-fields-escaped-by", "can't be more than one character")}]
  ELSE IF RuneCountInString(quoteCharString) < 1
  THEN [dialect |-> {},
        err |-> {DialectError("-fields-optionally-enclosed-by", "can't be an empty string")}]
  ELSE IF RuneCountInString(escapeCharString) < 1
  THEN [dialect |-> {},
        err |-> {DialectError("-fields-escaped-by", "can't be an empty string")}]
  ELSE [dialect |-> {[Delimiter |-> ReadRune(delimiterCharString),
                      QuoteChar |-> ReadRune(quoteCharString),
                      EscapeChar |-> ReadRune(escapeCharString),
                      DoubleQuote |-> "NoDoubleQuote"]},
        err |-> {}]

\* p.Dialect()
Dialect ==
  /\ builder # "none"
  /\ dialectReturn' = {dialectOf}
  /\ UNCHANGED <<builder, quoteCharString, escapeCharString, delimiterCharString,
                 commandLineParsed, flagSetParsed, detectorVars>>

Init ==
  /\ \/ data \in ShortStreams /\ enclosure \in Enclosures
     \/ data \in LongStreams /\ enclosure = QUOTE
  /\ blockSize \in BlockSizes
  /\ off = 0
  /\ reads = 0
  /\ bbuf = <<>>
  /\ berr = "nil"
  /\ op = "none"
  /\ pc = "idle"
  /\ buf = <<>>
  /\ n = 0
  /\ err = "nil"
  /\ i = 0
  /\ base = 0
  /\ enclosed = FALSE
  /\ actualSampleLines = 1
  /\ frequencies = createFrequencyTable
  /\ touched = {}
  /\ analyzed = <<>>
  /\ candidates = <<>>
  /\ terminator = <<>>
  /\ previous = {}
  /\ NoBuilder

Next ==
  \/ DetectRowTerminator
  \/ DetectDelimiter
  \/ SampleRead
  \/ SampleScan
  \/ Analyze
  \/ DetectDelimiterReturn
  \/ Reopen

Spec == Init /\ [][Next]_vars

(* ------------------------------------------------------------------ *)
(* analyze on its own: every table up to a size                        *)
(* ------------------------------------------------------------------ *)
\* most lines sample has counted when it hands over the table
MaxTableLines == 3
\* largest count of one character on one line
MaxCount == 2

TableChars == {COMMA, SEMICOLON}

\* the frequency table that holds the counts g[c, l] that are not zero
TableOf(g, lines) ==
  [c \in {c \in TableChars : \E l \in lines : g[<<c, l>>] > 0} |->
     [l \in {l \in lines : g[<<c, l>>] > 0} |-> g[<<c, l>>]]]

\* sample has just returned some table with its line count
AnalyzeInit ==
  /\ actualSampleLines \in 2..MaxTableLines
  /\ \E g \in [TableChars \X (1..actualSampleLines) -> 0..MaxCount] :
       frequencies = TableOf(g, 1..actualSampleLines)
  /\ data = <<>>
  /\ enclosure = QUOTE
  /\ blockSize = bufSize
  /\ off = 0
  /\ reads = 1
  /\ bbuf = <<>>
  /\ berr = "nil"
  /\ op = "delim"
  /\ pc = "analyze"
  /\ buf = <<>>
  /\ n = 0
  /\ err = "EOF"
  /\ i = 0
  /\ base = 0
  /\ enclosed = FALSE
  /\ touched = {}
  /\ analyzed = <<>>
  /\ candidates = <<>>
  /\ terminator = <<>>
  /\ previous = {}
  /\ NoBuilder

AnalyzeNext ==
  \/ Analyze
  \/ DetectDelimiterReturn

AnalyzeSpec == AnalyzeInit /\ [][AnalyzeNext]_vars

(* ------------------------------------------------------------------ *)
(* The dialect builder on its own                                      *)
(* ------------------------------------------------------------------ *)
\* no call of the detector is made
NoDetectorCall ==
  /\ data = <<>>
  /\ enclosure = QUOTE
  /\ blockSize = bufSize
  /\ off = 0
  /\ reads = 0
  /\ bbuf = <<>>
  /\ berr = "nil"
  /\ op = "none"
  /\ pc = "idle"
  /\ buf = <<>>
  /\ n = 0
  /\ err = "nil"
  /\ i = 0
  /\ base = 0
  /\ enclosed = FALSE
  /\ actualSampleLines = 1
  /\ frequencies = createFrequencyTable
  /\ touched = {}
  /\ analyzed = <<>>
  /\ candidates = <<>>
  /\ terminator = <<>>
  /\ previous = {}

DialectInit == NoDetectorCall /\ NoBuilder

DialectNext ==
  \/ FromCommandLine
  \/ FromFlagSet
  \/ ParseCommandLine
  \/ ParseFlagSet
  \/ SetFlag
  \/ Dialect

DialectSpec == DialectInit /\ [][DialectNext]_vars

(* ------------------------------------------------------------------ *)
(* What the content of the stream is, told without the sampler         *)
(* ------------------------------------------------------------------ *)
termDone == op = "term" /\ pc = "done"
delimDone == op = "delim" /\ pc = "done"

\* the bytes the one Read of DetectRowTerminator delivered
FirstChunk == SubSeq(data, 1, n)

HasCRLF(s) == \E j \in 1..(Len(s) - 1) : s[j] = CR /\ s[j + 1] = LF
HasCR(s) == \E j \in 1..Len(s) : s[j] = CR

PriorityTerminator(s) ==
  IF HasCRLF(s) THEN <<CR, LF>> ELSE IF HasCR(s) THEN <<CR>> ELSE <<LF>>

Terminators == {<<CR, LF>>, <<CR>>, <<LF>>}

\* d is one or more lines, each ended by the terminator t and by nothing else
TerminatedBy(d, t) ==
  /\ Len(d) >= Len(t)
  /\ SubSeq(d, Len(d) - Len(t) + 1, Len(d)) = t
  /\ \A j \in 1..Len(d) :
       /\ d[j] = CR => IF t = <<CR>> THEN TRUE
                       ELSE t = <<CR, LF>> /\ j < Len(d) /\ d[j + 1] = LF
       /\ d[j] = LF => IF t = <<LF>> THEN TRUE
                       ELSE t = <<CR, LF>> /\ j > 1 /\ d[j - 1] = CR

\* byte j of the stream lies outside every quoted field
Unenclosed(j) ==
  /\ data[j] # enclosure
  /\ Cardinality({k \in 1..(j - 1) : data[k] = enclosure}) % 2 = 0

\* byte j ends a physical line: an unenclosed carriage return, or an
\* unenclosed linefeed that does not follow a carriage return
IsBreak(j) ==
  /\ Unenclosed(j)
  /\ \/ data[j] = CR
     \/ data[j] = LF /\ ~(j > 1 /\ data[j - 1] = CR)

Breaks == {j \in 1..Len(data) : IsBreak(j)}
LineOf(j) == 1 + Cardinality({k \in Breaks : k < j})

EndsWithBreak ==
  /\ Len(data) > 0
  /\ \/ Len(data) \in Breaks
     \/ data[Len(data)] = LF /\ (Len(data) - 1) \in Breaks

\* the physical lines of the stream, the final partial line included
NumLines ==
  IF Len(data) = 0 THEN 0
  ELSE IF EndsWithBreak THEN Cardinality(Breaks) ELSE Cardinality(Breaks) + 1

SampledLines == 1..Min(NumLines, sampleLines)

\* unenclosed occurrences of the character c on the physical line l
CountOn(c, l) ==
  Cardinality({j \in 1..Len(data) : data[j] = c /\ Unenclosed(j) /\ LineOf(j) = l})

AllowList == {COMMA, PIPE, TAB, SEMICOLON}
AllowedStrings == {<<c>> : c \in AllowList}

\* the count the sampler has recorded for the character c on its line l
TableCount(c, l) == IF c \in DOMAIN frequencies THEN lookup(frequencies[c], l) ELSE 0

\* The offsets that lie, inside one quoted field, behind a pair of two
\* consecutive enclosure bytes and before the enclosure that closes the field.
RECURSIVE EscapedTailFrom(_, _, _, _)
EscapedTailFrom(j, inside, seenPair, pend) ==
  IF j > Len(data) THEN {}
  ELSE IF ~inside
  THEN EscapedTailFrom(j + 1, data[j] = enclosure, FALSE, {})
  ELSE IF data[j] = enclosure
  THEN IF j < Len(data) /\ data[j + 1] = enclosure
       THEN EscapedTailFrom(j + 2, TRUE, TRUE, pend)
       ELSE pend \cup EscapedTailFrom(j + 1, FALSE, FALSE, {})
  ELSE EscapedTailFrom(j + 1, TRUE, seenPair, IF seenPair THEN pend \cup {j} ELSE pend)

EscapedTail == EscapedTailFrom(1, FALSE, FALSE, {})

(* ------------------------------------------------------------------ *)
(* The claims                                                          *)
(* ------------------------------------------------------------------ *)

\* C1: whatever the one Read returns (data, end of input, an error, data
\* together with an error), DetectRowTerminator returns one of "\r\n", "\r", "\n".
C1_OneOfThreeTerminators == termDone => terminator \in Terminators

\* C2: when the first Read reports end of input or another error,
\* DetectRowTerminator returns the linefeed default "\n".
C2_ErrorGivesLinefeed == (termDone /\ err # "nil") => terminator = <<LF>>

\* C3 (as claimed): when the first Read succeeds with a non-empty chunk the
\* result is "\r\n" if the chunk holds a CR LF pair, else "\r" if it holds a CR,
\* else "\n"; and a stream whose lines all end in one terminator yields it.
C3_StreamTerminatorRecovered ==
  (termDone /\ err = "nil" /\ n > 0) =>
     /\ terminator = PriorityTerminator(FirstChunk)
     /\ \A t \in Terminators : TerminatedBy(data, t) => terminator = t

\* C3 (amended): the result follows the priority rule on the chunk of the
\* first Read; a stream whose lines all end in one terminator yields that
\* terminator when that chunk holds at least one whole terminator.
C3_ChunkPriority ==
  (termDone /\ err = "nil" /\ n > 0) =>
     /\ terminator = PriorityTerminator(FirstChunk)
     /\ \A t \in Terminators :
          (TerminatedBy(data, t) /\ Index(FirstChunk, t) # -1) => terminator = t

\* C3 witness: the chunk holds a lone CR and, behind it, a CR LF pair, and
\* "\r\n" was returned
C3_Witness ==
  /\ termDone /\ err = "nil"
  /\ \E j \in 1..(n - 1) : FirstChunk[j] = CR /\ FirstChunk[j + 1] # LF
                           /\ HasCRLF(SubSeq(FirstChunk, j + 1, n))
  /\ terminator = <<CR, LF>>

\* C4: every element DetectDelimiter returns is the one-character string of
\* an allow-listed delimiter: comma, pipe, tab or semicolon.
C4_OnlyAllowListed ==
  delimDone => \A k \in 1..Len(candidates) : candidates[k] \in AllowedStrings

\* C4 witness: analyze let a character through that is not allow-listed, and
\* DetectDelimiter returned a non-empty sequence
C4_Witness ==
  /\ delimDone
  /\ candidates # <<>>
  /\ \E k \in 1..Len(analyzed) : analyzed[k] \notin AllowList

\* C5: when every sampled line of the stream has exactly 3 unenclosed commas
\* (one line or more, with or without a trailing line break), the result of
\* DetectDelimiter includes ",".
C5_ThreeCommasDetected ==
  (delimDone /\ NumLines >= 1 /\ \A l \in SampledLines : CountOn(COMMA, l) = 3)
     => <<COMMA>> \in Range(candidates)

\* C6 (as claimed): a character whose unenclosed count differs between two
\* sampled lines, the final partial line included, is never returned.
C6_IrregularNeverReturned ==
  delimDone =>
    \A c \in AllowList :
      (\E l1, l2 \in SampledLines : CountOn(c, l1) # CountOn(c, l2))
         => ByteToString(c) \notin Range(candidates)

\* C6 (amended): a character whose recorded count differs between two of the
\* sampler's lines 1..actualSampleLines-1 is never returned; the last sampled
\* line is not compared.
C6_IrregularBeforeLastNeverReturned ==
  delimDone =>
    \A c \in DOMAIN frequencies :
      (\E l1, l2 \in 1..(actualSampleLines - 1) : TableCount(c, l1) # TableCount(c, l2))
         => ByteToString(c) \notin Range(candidates)

\* C6 witness: an allow-listed character was recorded with differing counts
\* on two lines before the last one, and DetectDelimiter has returned
C6_Witness ==
  /\ delimDone
  /\ \E c \in AllowList \cap DOMAIN frequencies :
       \E l1, l2 \in 1..(actualSampleLines - 1) : TableCount(c, l1) # TableCount(c, l2)

\* C7: two DetectDelimiter calls on independent streams of the same content
\* return the same sequence, in the same order.
C7_SameSequenceTwice == delimDone => \A r \in previous : candidates = r

\* C8: a byte between a doubled enclosure inside a quoted field and the
\* enclosure that closes the field is neither recorded in the frequency table
\* nor counted as a line break.
C8_EscapedTailUntouched == op = "delim" => touched \cap EscapedTail = {}

\* C9: the actual line count of the sampler never exceeds the target line count.
C9_LinesAtMostTarget == op = "delim" => actualSampleLines <= sampleLines

\* C10: once the line counter has reached the target, the sampler is handed no
\* further chunk to scan: no Read is issued and no later byte is looked at.
C10_NoChunkAfterTarget == (op = "delim" /\ pc = "scan") => actualSampleLines < sampleLines

\* the recorded count of the character c is the same on every line 1..size
UniformInTable(c, size) ==
  \A l1, l2 \in 1..size : TableCount(c, l1) = TableCount(c, l2)

\* C11: on an empty stream, and whenever no allow-listed character has one
\* count on all compared lines, DetectDelimiter returns the empty sequence:
\* no default delimiter stands in, and no error is returned.
C11_NothingQualifiesGivesEmpty ==
  (delimDone /\ (data = <<>>
                 \/ actualSampleLines < 2
                 \/ ~\E c \in AllowList \cap DOMAIN frequencies :
                       UniformInTable(c, actualSampleLines - 1)))
     => candidates = <<>>

\* C11 witness: DetectDelimiter has returned on a stream in which a comma was
\* recorded, on lines that do not all hold it
C11_Witness ==
  /\ delimDone
  /\ actualSampleLines >= 3
  /\ COMMA \in DOMAIN frequencies
  /\ ~UniformInTable(COMMA, actualSampleLines - 1)
  /\ candidates = <<>>

\* the enclosure bytes of the stream pair up: each opening one has its closing one
EnclosuresMatched == Cardinality({k \in 1..Len(data) : data[k] = enclosure}) % 2 = 0

\* byte j lies strictly between an opening enclosure and its closing enclosure
Enclosed(j) ==
  /\ data[j] # enclosure
  /\ Cardinality({k \in 1..(j - 1) : data[k] = enclosure}) % 2 = 1

\* C14: in a stream whose enclosure bytes occur as matched opening/closing
\* pairs, a byte strictly between an opening enclosure and its closing
\* enclosure is never recorded in the frequency table and never counted as a
\* line break.
C14_EnclosedBytesUntouched ==
  (op = "delim" /\ EnclosuresMatched) => \A j \in touched : ~Enclosed(j)

\* the sampler has run to the end of the stream
sampleOver == op = "delim" /\ pc \in {"analyze", "filter", "done"}

\* C15: while unenclosed, the line counter goes up exactly once for each
\* CR LF pair, each lone CR and each lone LF, wherever they fall: for a stream
\* that ends before the target, the counter ends at one more than the number
\* of its line breaks.
C15_OneIncrementPerLineBreak ==
  (sampleOver /\ Cardinality(Breaks) < sampleLines - 1)
     => actualSampleLines = 1 + Cardinality(Breaks)

\* C16: for an effective line count of 1 or more, analyze returns exactly the
\* recorded characters whose count is the same on each of the lines 1..n (a
\* missing entry counting as zero), each once; all that qualify are returned.
C16_AnalyzeReturnsExactlyUniform ==
  (op = "delim" /\ pc = "filter" /\ actualSampleLines - 1 >= 1) =>
     /\ Range(analyzed) = {c \in DOMAIN frequencies : UniformInTable(c, actualSampleLines - 1)}
     /\ Len(analyzed) = Cardinality(Range(analyzed))

\* C16 witness: analyze was handed two or more lines to compare and a table in
\* which "," and ";" are each uniform, with different counts, and returned both
C16_Witness ==
  /\ op = "delim" /\ pc = "filter"
  /\ actualSampleLines - 1 >= 2
  /\ {COMMA, SEMICOLON} \subseteq Range(analyzed)
  /\ TableCount(COMMA, 1) > TableCount(SEMICOLON, 1)
  /\ TableCount(SEMICOLON, 1) > 0

\* C17: the line count DetectDelimiter hands to analyze is never zero when
\* analyze divides by it: whenever the table holds a character, so that mean
\* and deviation are computed, their denominator is not zero.
C17_AnalyzerLineCountNotZero ==
  (op = "delim" /\ pc \in {"filter", "done"} /\ DOMAIN frequencies # {})
     => actualSampleLines - 1 # 0

IsAlnum(c) == c \in (48..57) \cup (65..90) \cup (97..122)

\* C18: at every step of a sampling pass each stored (character, line) entry
\* has a count of at least 1, its line lies between 1 and the current line
\* counter, and its character is not an ASCII alphanumeric, CR, LF or the
\* enclosure byte.
C18_TableEntriesWellFormed ==
  op = "delim" =>
    \A c \in DOMAIN frequencies :
      /\ ~IsAlnum(c) /\ c # CR /\ c # LF /\ c # enclosure
      /\ \A l \in DOMAIN frequencies[c] :
           /\ frequencies[c][l] >= 1
           /\ 1 <= l /\ l <= actualSampleLines

\* C18 witness: in the middle of a pass the table holds a character with
\* entries on two lines, one of them with a count above 1 and one on a line
\* the counter has left behind
C18_Witness ==
  /\ op = "delim" /\ pc = "scan"
  /\ \E c \in DOMAIN frequencies :
       \E l1, l2 \in DOMAIN frequencies[c] :
          /\ l1 < l2
          /\ l2 <= actualSampleLines
          /\ frequencies[c][l1] > 1 \/ frequencies[c][l2] > 1

\* C19: DetectRowTerminator issues exactly one Read on the stream on every
\* path and leaves the stream where that Read left it (no rewind); its result
\* is decided by the bytes and the error of that Read alone.
C19_OneReadNoRewind ==
  termDone =>
    /\ reads = 1
    /\ off = n
    /\ n <= Min(blockSize, 128 * KB)
    /\ terminator = IF err # "nil" THEN <<>> ELSE PriorityTerminator(FirstChunk)

\* C19 witness: the one Read delivered a part of the stream without a carriage
\* return, the rest holds one, and "\n" was returned
C19_Witness ==
  /\ termDone /\ err = "nil" /\ reads = 1
  /\ 0 < n /\ n < Len(data)
  /\ ~HasCR(FirstChunk)
  /\ HasCR(SubSeq(data, n + 1, Len(data)))
  /\ terminator = <<LF>>

(* ------------------------------------------------------------------ *)
(* The dialect builder: validation and the not-parsed error            *)
(* ------------------------------------------------------------------ *)
\* the flag set on which the flags of the builder are defined has been parsed
builderParsed ==
  \/ builder = "flagSet" /\ flagSetParsed
  \/ builder = "commandLine" /\ commandLineParsed

\* the options of the builder and the string each one holds
Options ==
  {"-fields-optionally-enclosed-by", "-fields-escaped-by", "-fields-terminated-by"}

StringOf(option) ==
  IF option = "-fields-optionally-enclosed-by" THEN quoteCharString
  ELSE IF option = "-fields-escaped-by" THEN escapeCharString
  ELSE delimiterCharString

Malformed(option) == Len(StringOf(option)) # 1

\* the error names an option whose string breaks the constraint it states
NamesOffence(e) ==
  /\ e.option \in Options
  /\ \/ e.constraint = "can't be an empty string" /\ Len(StringOf(e.option)) = 0
     \/ e.constraint = "can't be more than one character" /\ Len(StringOf(e.option)) > 1

\* C12: on a builder whose flags have been parsed, Dialect() returns an error
\* naming an offending option and the constraint it breaks, and no dialect,
\* whenever the quote, escape or delimiter string is empty or longer than one
\* character; it returns a dialect, and no error, only when each of the three
\* strings is exactly one character.
C12_MalformedStringsRejected ==
  \A r \in dialectReturn :
    builderParsed =>
      /\ (\E o \in Options : Malformed(o)) =>
            (r.dialect = {} /\ \E e \in r.err : NamesOffence(e))
      /\ r.dialect # {} => (r.err = {} /\ \A o \in Options : ~Malformed(o))

\* C12 with the delimiter left out: the quote and escape strings are validated
C12_QuoteAndEscapeValidated ==
  \A r \in dialectReturn :
    builderParsed =>
      /\ (Malformed("-fields-optionally-enclosed-by") \/ Malformed("-fields-escaped-by")) =>
            (r.dialect = {} /\ \E e \in r.err : NamesOffence(e))
      /\ r.dialect # {} =>
            /\ r.err = {}
            /\ ~Malformed("-fields-optionally-enclosed-by")
            /\ ~Malformed("-fields-escaped-by")

\* C13: Dialect() called before the flag set of the builder (the FlagSet given
\* to FromFlagSet, the process-wide one for FromCommandLine) has been parsed
\* returns an error and no dialect, whatever the flag values are; called after
\* it has been parsed, it does not return the not-parsed error.
C13_NotParsedErrorUntilParsed ==
  \A r \in dialectReturn :
    /\ ~builderParsed => (r.err # {} /\ r.dialect = {})
    /\ builderParsed => NotParsedError \notin r.err

\* Dialect() on a FromFlagSet builder whose FlagSet is not parsed, while the
\* process-wide flag set is parsed and the three flags hold one character
\* each, the delimiter no longer its default: the not-parsed error, no dialect
C13_Witness ==
  /\ builder = "flagSet"
  /\ ~flagSetParsed
  /\ commandLineParsed
  /\ \A o \in Options : ~Malformed(o)
  /\ delimiterCharString = <<COMMA>>
  /\ dialectReturn = {[dialect |-> {}, err |-> {NotParsedError}]}

====
